---- MODULE Spec2Model ----
(***************************************************************************)
(* Model of panel_segmentation/panel_detection.py, class PanelDetection:   *)
(* cropPanels, detectAzimuth and clusterPanels.                            *)
(*                                                                         *)
(* Arrays are modelled by value.  A 640x640 grid is scaled down to NPix    *)
(* pixels (flat, C order).  A floating point number is an exact rational   *)
(* <<num, den>> with den > 0; a uint8 number is an integer in 0..255.      *)
(* The caller's arrays are variables of their own (test_data, test_res),   *)
(* so that writes through numpy views reach them.                          *)
(***************************************************************************)
EXTENDS Integers, Sequences, FiniteSets, TLC

\* ------------------------------------------------------------------ bounds
NPix == 2
MaxBatch == 3
MaxLines == 4
MaxClusters == 2

\* ------------------------------------------------------- program constants
Channels == 3
NumAngles == 360

\* ------------------------------------------------------------- arithmetic
Pix == 1..NPix
Chan == 1..Channels

R(n) == <<n, 1>>

\* int(x) / the C cast of a non-negative float: the fraction is dropped
TruncPos(v) == v[1] \div v[2]

\* np.uint8(x), and the cast on assignment into a uint8 array
ToUint8(v) == TruncPos(v) % 256

\* x < 0.9 and x >= 0.9 on exact rationals
Below09(v) == v[1] * 10 < 9 * v[2]
AtLeast09(v) == v[1] * 10 >= 9 * v[2]

\* ------------------------------------------------------------ input values
\* channel values in [0, 256): a black pixel, an integer valued pixel and a
\* pixel with fractional channel values (0.5, 1.5, 255.5)
PixelKinds ==
    << <<R(0), R(0), R(0)>>,
       <<R(255), R(1), R(0)>>,
       << <<1, 2>>, <<3, 2>>, <<511, 2>> >> >>

\* mask confidences 0, 1, 0.89 and the boundary 0.9
MaskVals == << R(0), R(1), <<89, 100>>, <<9, 10>> >>

\* the images of the model: image k holds the pixel kinds in rotation, kind
\* k + p at pixel p
NumImages == Len(PixelKinds)
ImageOf(k) == [p \in Pix |-> PixelKinds[((k + p) % Len(PixelKinds)) + 1]]

\* the masks of the model: masks 0..3 hold the four mask values in rotation,
\* masks 4 and 5 are binary, 0 and 1 in alternation
NumMasks == Len(MaskVals) + 2
MaskOf(k) ==
    IF k < Len(MaskVals)
    THEN [p \in Pix |-> MaskVals[((k + p) % Len(MaskVals)) + 1]]
    ELSE [p \in Pix |-> MaskVals[((k + p) % 2) + 1]]

\* a batch of n grids, starting at grid s of the enumeration
ImageBatch(s, n) == [j \in 1..n |-> ImageOf((s + j - 1) % NumImages)]
MaskBatch(s, n) == [j \in 1..n |-> MaskOf((s + j - 1) % NumMasks)]

\* test_data arguments of cropPanels: a (640,640,3) image, an (n,640,640,3)
\* batch, an array of another spatial size, or something that is no ndarray
DataArgs ==
    {[kind |-> "single", items |-> ImageBatch(s, 1)] : s \in 0..(NumImages - 1)}
    \cup {[kind |-> "batch", items |-> ImageBatch(s, n)] :
            s \in 0..(NumImages - 1), n \in 1..MaxBatch}
    \cup {[kind |-> "badShape", items |-> ImageBatch(1, 1)],
          [kind |-> "notArray", items |-> <<>>]}

\* test_res arguments: a (640,640) mask, an (n,640,640) batch, an array of
\* 640*640 elements in another shape ((320,1280), flat), an array of another
\* size, or something that is no ndarray
ResArgs ==
    {[kind |-> k, items |-> MaskBatch(s, 1)] :
            k \in {"grid", "sameSize"}, s \in 0..(NumMasks - 1)}
    \cup {[kind |-> "batch", items |-> MaskBatch(s, n)] :
            s \in 0..(NumMasks - 1), n \in 1..MaxBatch}
    \cup {[kind |-> "wrongSize", items |-> MaskBatch(1, 1)],
          [kind |-> "notArray", items |-> <<>>]}

NoData == [kind |-> "none", items |-> <<>>]

\* indices into tested_angles: -1.25, -0.25, 0.25 and 1.25 degrees
Angles == {177, 179, 180, 182}

\* number_lines arguments: ints from -1 up, a float and a bool
NumberArgs ==
    {[ty |-> "int", v |-> n] : n \in (-1)..MaxLines}
    \cup {[ty |-> "float", v |-> 2], [ty |-> "bool", v |-> 1]}

NoNumber == [ty |-> "none", v |-> 0]

\* test_data arguments of clusterPanels: a (640,640,3) or (1,640,640,3)
\* image, a longer batch, a 2-dimensional array, or something that is no
\* ndarray
ClusterDataArgs ==
    {[kind |-> k, items |-> ImageBatch(s, 1)] :
            k \in {"single", "batch"}, s \in 0..(NumImages - 1)}
    \cup {[kind |-> "batch", items |-> ImageBatch(1, 2)],
          [kind |-> "badDim", items |-> <<>>],
          [kind |-> "notArray", items |-> <<>>]}

\* test_mask arguments: a (640,640) mask or something that is no ndarray
ClusterMaskArgs ==
    {[kind |-> "grid", items |-> MaskBatch(s, 1)] : s \in 0..(NumMasks - 1)}
    \cup {[kind |-> "notArray", items |-> <<>>]}

\* number_clusters arguments: ints from -1 up, a float and a bool
ClusterNumberArgs ==
    {[ty |-> "int", v |-> n] : n \in (-1)..MaxClusters}
    \cup {[ty |-> "float", v |-> 2], [ty |-> "bool", v |-> 1]}

RECURSIVE SeqsUpTo(_, _)
SeqsUpTo(S, n) ==
    IF n <= 0 THEN {<<>>}
    ELSE LET shorter == SeqsUpTo(S, n - 1)
         IN shorter \cup {Append(q, a) : q \in {t \in shorter : Len(t) = n - 1}, a \in S}

\* what the peak search can return when asked for n peaks: at most n peaks,
\* strongest first; a single peak may lie at any tested angle
PeakSeqs(n) ==
    SeqsUpTo(Angles, n)
    \cup (IF n >= 1 THEN {<<k>> : k \in 0..(NumAngles - 1)} ELSE {})

VARIABLES
    op,            \* the method being run
    pc,            \* its position: idle, loop, returned, raised
    err,           \* the exception raised
    ran,           \* the library computations run so far in this call
    test_data,     \* the caller's image array
    test_res,      \* the caller's mask array
    orig_data,     \* test_data as it was when the call started
    orig_res,      \* test_res as it was when the call started
    recrop,        \* the call crops the previous call's result again
    prev_res,      \* test_res as the previous call received it
    new_test_res,  \* cropPanels' result array
    ju,            \* cropPanels' loop index
    in_img,        \* detectAzimuth's image argument
    number_lines,  \* detectAzimuth's argument: its type and value
    peaks,         \* indices into tested_angles of the peaks of the search
    az,            \* detectAzimuth's array of bins
    ind,           \* detectAzimuth's loop index
    azimuth,       \* detectAzimuth's result
    test_mask,     \* clusterPanels' mask argument
    number_clusters, \* clusterPanels' argument: its type and value
    fig,           \* clusterPanels' argument: its type
    label_im,      \* clusterPanels' grid of labels
    clusters,      \* clusterPanels' result array
    i              \* clusterPanels' loop index

vars == <<op, pc, err, ran, test_data, test_res, orig_data, orig_res, recrop,
          prev_res, new_test_res, ju, in_img, number_lines, peaks, az, ind,
          azimuth, test_mask, number_clusters, fig, label_im, clusters, i>>

cropVars == <<test_data, test_res, orig_data, orig_res, recrop, prev_res,
              new_test_res, ju>>

azVars == <<in_img, number_lines, peaks, az, ind, azimuth>>

clusterVars == <<test_mask, number_clusters, fig, label_im, clusters, i>>

Init ==
    /\ op = "none"
    /\ pc = "idle"
    /\ err = "none"
    /\ ran = {}
    /\ test_data = NoData
    /\ test_res = NoData
    /\ orig_data = NoData
    /\ orig_res = NoData
    /\ recrop = FALSE
    /\ prev_res = NoData
    /\ new_test_res = <<>>
    /\ ju = 0
    /\ in_img = "none"
    /\ number_lines = NoNumber
    /\ peaks = <<>>
    /\ az = <<>>
    /\ ind = 0
    /\ azimuth = 0
    /\ test_mask = NoData
    /\ number_clusters = NoNumber
    /\ fig = "none"
    /\ label_im = <<>>
    /\ clusters = <<>>
    /\ i = 0

\* ------------------------------------------------------------- cropPanels
ZeroImage == [p \in Pix |-> [c \in Chan |-> 0]]

\* test_data.shape[0] after the newaxis of lines 368-369
BatchLen(d) == Len(d.items)

\* in_img[in_img < 0.9] = 0
ZeroBelow(m) == [p \in Pix |-> IF Below09(m[p]) THEN R(0) ELSE m[p]]

\* in_img[in_img >= 0.9] = 1
OneAtLeast(m) == [p \in Pix |-> IF AtLeast09(m[p]) THEN R(1) ELSE m[p]]

\* in_img[in_img > 0.9] = 1: the boundary value is left as it is
OneAbove(m) == [p \in Pix |-> IF m[p][1] * 10 > 9 * m[p][2] THEN R(1) ELSE m[p]]

ThresholdMask_Strict(m) == OneAbove(ZeroBelow(m))

\* the thresholded mask inverted in place: in_img[:] = 1 - in_img
ThresholdMask_Inverting(m) ==
    [p \in Pix |-> IF OneAtLeast(ZeroBelow(m))[p] = R(1) THEN R(0) ELSE R(1)]

\* the two in-place assignments, in order
ThresholdMask(m) == OneAtLeast(ZeroBelow(m))

\* in_img = np.uint8(in_img)
MaskUint8(m) == [p \in Pix |-> ToUint8(m[p])]

\* (1-in_img).astype(bool), 1 - x computed in uint8
Outside(b) == [p \in Pix |-> ((1 - b[p]) % 256) # 0]

\* test2[sel, c] = 0
ZeroChannel(img, sel, c) ==
    [p \in Pix |-> IF sel[p] THEN [img[p] EXCEPT ![c] = R(0)] ELSE img[p]]

\* test2 = np.copy(test_data[ju]) and the three channel assignments
CropCopy(img, b) ==
    ZeroChannel(ZeroChannel(ZeroChannel(img, Outside(b), 1), Outside(b), 2), Outside(b), 3)

\* new_test_res[ju] = test2/255
StoreUint8_Scaled(img) ==
    [p \in Pix |-> [c \in Chan |-> ToUint8(<<img[p][c][1], img[p][c][2] * 255>>)]]

\* new_test_res[ju] = test2: the values are cast to uint8
StoreUint8(img) == [p \in Pix |-> [c \in Chan |-> ToUint8(img[p][c])]]

\* which element of test_res the try/except of lines 374-377 selects for
\* item j (1-based): 0 when both reshapes fail
SelectMask(r, j) ==
    CASE r.kind = "batch" /\ j <= Len(r.items) -> j
      [] r.kind = "batch" /\ Len(r.items) = 1 -> 1
      [] r.kind = "batch" -> 0
      [] r.kind \in {"grid", "sameSize"} -> 1
      [] OTHER -> 0

\* lines 362-371: the type checks, the newaxis and the allocation
CropEnter(d, r, again) ==
    /\ op' = "cropPanels"
    /\ test_data' = d
    /\ test_res' = r
    /\ orig_data' = d
    /\ orig_res' = r
    /\ recrop' = again
    /\ prev_res' = orig_res
    /\ ran' = {}
    /\ ju' = 0
    /\ IF d.kind = "notArray" \/ r.kind = "notArray"
       THEN /\ pc' = "raised"
            /\ err' = "TypeError"
            /\ new_test_res' = <<>>
       ELSE /\ pc' = "loop"
            /\ err' = "none"
            /\ new_test_res' = [j \in 1..BatchLen(d) |-> ZeroImage]

cropPanels(d, r) ==
    /\ pc = "idle"
    /\ CropEnter(d, r, FALSE)
    /\ UNCHANGED <<azVars, clusterVars>>

\* lines 373-386: one iteration of the loop
CropItem ==
    /\ op = "cropPanels"
    /\ pc = "loop"
    /\ ju < BatchLen(test_data)
    /\ LET j == ju + 1
           k == SelectMask(test_res, j)
       IN IF k = 0
          THEN \* the reshape in the except clause raises
               /\ pc' = "raised"
               /\ err' = "ValueError"
               /\ UNCHANGED <<test_res, new_test_res, ju, ran>>
          ELSE LET m == ThresholdMask(test_res.items[k])
               IN \* in_img is a view: the caller's array is written
                  /\ test_res' = [test_res EXCEPT !.items[k] = m]
                  /\ UNCHANGED ran
                  /\ IF test_data.kind = "badShape"
                     THEN \* the boolean index does not fit test2
                          /\ pc' = "raised"
                          /\ err' = "IndexError"
                          /\ UNCHANGED <<new_test_res, ju>>
                     ELSE /\ new_test_res' =
                                [new_test_res EXCEPT
                                   ![j] = StoreUint8(CropCopy(test_data.items[j], MaskUint8(m)))]
                          /\ ju' = ju + 1
                          /\ UNCHANGED <<pc, err>>
    /\ UNCHANGED <<op, test_data, orig_data, orig_res, recrop, prev_res>>
    /\ UNCHANGED <<azVars, clusterVars>>

\* line 388
CropReturn ==
    /\ op = "cropPanels"
    /\ pc = "loop"
    /\ ju = BatchLen(test_data)
    /\ pc' = "returned"
    /\ UNCHANGED <<op, err, ran, cropVars, azVars, clusterVars>>

\* a uint8 array passed as test_data
AsData(res) == [kind |-> "batch", items |-> [j \in 1..Len(res) |-> [p \in Pix |-> [c \in Chan |-> R(res[j][p][c])]]]]

\* the caller crops the result again with the same mask array
CropAgain ==
    /\ op = "cropPanels"
    /\ pc = "returned"
    /\ ~recrop
    /\ CropEnter(AsData(new_test_res), test_res, TRUE)
    /\ UNCHANGED <<azVars, clusterVars>>

\* ---------------------------------------------------------- detectAzimuth
\* np.rad2deg(tested_angles[k]) is (180*k - 90*(NumAngles-1)) / (NumAngles-1)
AngleNum(k) == 180 * k - 90 * (NumAngles - 1)
AngleDen == NumAngles - 1

\* np.floor(np.rad2deg(angle))
DegAng_Floor(k) == AngleNum(k) \div AngleDen

\* int(np.rad2deg(angle)): truncation toward zero
DegAng(k) ==
    IF AngleNum(k) >= 0 THEN AngleNum(k) \div AngleDen ELSE -((-AngleNum(k)) \div AngleDen)

\* the negative branch as 270 - deg_ang
AzimuthBin_SignSlip(deg_ang) == IF deg_ang >= 0 THEN 90 + deg_ang ELSE 270 - deg_ang

\* lines 317-320 and 329-332
AzimuthBin(deg_ang) == IF deg_ang >= 0 THEN 90 + deg_ang ELSE 270 + deg_ang

SeqMin(S) == CHOOSE x \in S : \A y \in S : x <= y

\* np.unique(az, return_counts=True): the distinct values in ascending order
RECURSIVE SortedSeq(_)
SortedSeq(S) == IF S = {} THEN <<>> ELSE <<SeqMin(S)>> \o SortedSeq(S \ {SeqMin(S)})

UniqueElements(a) == SortedSeq({a[x] : x \in 1..Len(a)})
CountsElements(a) ==
    [u \in 1..Len(UniqueElements(a)) |->
        Cardinality({x \in 1..Len(a) : a[x] = UniqueElements(a)[u]})]

\* the last index of the largest value
ArgMax_Last(c) == CHOOSE u \in 1..Len(c) :
    /\ \A w \in 1..Len(c) : c[w] <= c[u]
    /\ \A w \in (u + 1)..Len(c) : c[w] < c[u]

\* np.argmax: the first index of the largest value
ArgMax(c) == SeqMin({u \in 1..Len(c) : \A w \in 1..Len(c) : c[w] <= c[u]})

\* az = np.ones((number_lines))
ZeroBins_Ones(n) == [x \in 1..n |-> 1]

\* line 310: az = np.zeros((number_lines))
ZeroBins(n) == [x \in 1..n |-> 0]

\* lines 298-302: the type checks
detectAzimuth(img, nl) ==
    /\ pc = "idle"
    /\ op' = "detectAzimuth"
    /\ in_img' = img
    /\ number_lines' = nl
    /\ ran' = {}
    /\ IF img # "ndarray" \/ nl.ty # "int"
       THEN pc' = "raised" /\ err' = "TypeError"
       ELSE pc' = "edges" /\ err' = "none"
    /\ UNCHANGED <<peaks, az, ind, azimuth, cropVars, clusterVars>>

\* lines 304-313: edge detection, the Hough transform, the bin array and the
\* peak search
AzEdges ==
    /\ op = "detectAzimuth"
    /\ pc = "edges"
    /\ ran' = ran \cup {"canny", "hough_line"}
    /\ IF number_lines.v < 0
       THEN \* np.zeros of a negative length
            /\ pc' = "raised"
            /\ err' = "ValueError"
            /\ UNCHANGED <<peaks, az, ind, azimuth>>
       ELSE /\ az' = ZeroBins(number_lines.v)
            /\ ind' = 0
            /\ azimuth' = 0
            /\ \E pk \in PeakSeqs(number_lines.v) : peaks' = pk
            /\ pc' = "lines"
            /\ UNCHANGED err
    /\ UNCHANGED <<op, in_img, number_lines, cropVars, clusterVars>>

\* lines 313-321: one iteration over the peaks
AzLine ==
    /\ op = "detectAzimuth"
    /\ pc = "lines"
    /\ ind < Len(peaks)
    /\ az' = [az EXCEPT ![ind + 1] = AzimuthBin(DegAng(peaks[ind + 1]))]
    /\ ind' = ind + 1
    /\ UNCHANGED <<op, pc, err, ran, in_img, number_lines, peaks, azimuth, cropVars, clusterVars>>

\* the mode of the bin array, line 334
ModeOf(a) == UniqueElements(a)[ArgMax(CountsElements(a))]

\* lines 323-336: the frequency count and the choice of the azimuth
AzResolve ==
    /\ op = "detectAzimuth"
    /\ pc = "lines"
    /\ ind = Len(peaks)
    /\ IF Len(az) = 0
       THEN \* np.argmax of an empty array
            /\ pc' = "raised"
            /\ err' = "ValueError"
            /\ UNCHANGED azimuth
       ELSE /\ pc' = "returned"
            /\ UNCHANGED err
            /\ IF CountsElements(az)[ArgMax(CountsElements(az))] = 1
               THEN \* the peak search again, for one peak
                    azimuth' = IF Len(peaks) >= 1
                               THEN AzimuthBin(DegAng(peaks[1]))
                               ELSE azimuth
               ELSE azimuth' = ModeOf(az)
    /\ UNCHANGED <<op, ran, in_img, number_lines, peaks, az, ind, cropVars, clusterVars>>

\* ---------------------------------------------------------- clusterPanels
\* mask = test_mask >= 0.9
MaskBool_Threshold(m) == [p \in Pix |-> AtLeast09(m[p])]

\* mask = test_mask.astype(bool): every value other than 0 is True
MaskBool(m) == [p \in Pix |-> m[p][1] # 0]

\* the labellings spectral_clustering can return for n_clusters = k: one
\* label in 0..k-1 for each pixel of the mask; -1 marks the other pixels, as
\* lines 591-592 scatter them
Labellings(mask, k) ==
    {l \in [Pix -> (-1)..(k - 1)] : \A p \in Pix : (l[p] = -1) <=> ~mask[p]}

\* c_mask = label_im != i
ClusterMask_Other(l, n) == [p \in Pix |-> l[p] # n]

\* c_mask = label_im == i
ClusterMask(l, n) == [p \in Pix |-> l[p] = n]

\* (1-c_mask).astype(bool)
NotIn(c_mask) == [p \in Pix |-> (1 - (IF c_mask[p] THEN 1 ELSE 0)) # 0]

\* clus = np.copy(test_data) and the three channel assignments
ClusterCopy(img, c_mask) ==
    ZeroChannel(ZeroChannel(ZeroChannel(img, NotIn(c_mask), 1), NotIn(c_mask), 2),
                NotIn(c_mask), 3)

\* lines 568-579: the type checks
clusterPanels(d, m, k, f) ==
    /\ pc = "idle"
    /\ op' = "clusterPanels"
    /\ test_data' = d
    /\ orig_data' = d
    /\ test_mask' = m
    /\ number_clusters' = k
    /\ fig' = f
    /\ ran' = {}
    /\ IF d.kind = "notArray" THEN pc' = "raised" /\ err' = "TypeError"
       ELSE IF d.kind = "badDim" THEN pc' = "raised" /\ err' = "ValueError"
       ELSE IF m.kind = "notArray" THEN pc' = "raised" /\ err' = "TypeError"
       ELSE IF k.ty # "int" THEN pc' = "raised" /\ err' = "TypeError"
       ELSE IF f # "bool" THEN pc' = "raised" /\ err' = "TypeError"
       ELSE pc' = "graph" /\ err' = "none"
    /\ UNCHANGED <<test_res, orig_res, recrop, prev_res, new_test_res, ju,
                   label_im, clusters, i, azVars>>

\* lines 581-587: the reshape and the graph of the masked pixels
ClusterGraph ==
    /\ op = "clusterPanels"
    /\ pc = "graph"
    /\ IF Len(test_data.items) # 1
       THEN \* test_data.reshape(640,640,3) of a longer batch
            /\ pc' = "raised"
            /\ err' = "ValueError"
            /\ UNCHANGED ran
       ELSE /\ pc' = "spectral"
            /\ ran' = ran \cup {"img_to_graph"}
            /\ UNCHANGED err
    /\ UNCHANGED <<op, cropVars, azVars, clusterVars>>

\* lines 590-594: spectral_clustering, the label grid and the result array
ClusterSpectral ==
    /\ op = "clusterPanels"
    /\ pc = "spectral"
    /\ ran' = ran \cup {"spectral_clustering"}
    /\ \/ \* the eigen-solver fails, or is asked for no cluster
          /\ pc' = "raised"
          /\ err' = "ValueError"
          /\ UNCHANGED <<label_im, clusters, i>>
       \/ /\ number_clusters.v >= 1
          /\ \E l \in Labellings(MaskBool(test_mask.items[1]), number_clusters.v) :
                label_im' = l
          /\ clusters' = [n \in 1..number_clusters.v |-> ZeroImage]
          /\ i' = 0
          /\ pc' = "render"
          /\ UNCHANGED err
    /\ UNCHANGED <<op, cropVars, azVars, test_mask, number_clusters, fig>>

\* lines 596-604: one iteration of the loop
ClusterRender ==
    /\ op = "clusterPanels"
    /\ pc = "render"
    /\ i < number_clusters.v
    /\ clusters' = [clusters EXCEPT
                      ![i + 1] = StoreUint8(ClusterCopy(test_data.items[1],
                                                       ClusterMask(label_im, i)))]
    /\ i' = i + 1
    /\ UNCHANGED <<op, pc, err, ran, cropVars, azVars, test_mask, number_clusters,
                   fig, label_im>>

\* line 609
ClusterReturn ==
    /\ op = "clusterPanels"
    /\ pc = "render"
    /\ i = number_clusters.v
    /\ pc' = "returned"
    /\ UNCHANGED <<op, err, ran, cropVars, azVars, clusterVars>>

\* ------------------------------------------------------------------ claims
\* the items cropPanels has stored so far
CropStored == IF op = "cropPanels" /\ pc \in {"loop", "returned", "raised"} THEN 1..ju ELSE {}

\* the mask value the caller passed for pixel p of item j
MaskValueFor(j, p) == orig_res.items[SelectMask(orig_res, j)][p]

\* C1 as stated: each output pixel equals the image's pixel in all three
\* channels where the mask value is >= 0.9 and is 0 in all three channels
\* where the mask value is < 0.9.
C1_CropKeepsPixel ==
    \A j \in CropStored : \A p \in Pix : \A c \in Chan :
        LET v == orig_data.items[j][p][c]
            o == new_test_res[j][p][c]
        IN IF MaskValueFor(j, p)[1] * 10 >= 9 * MaskValueFor(j, p)[2]
           THEN o * v[2] = v[1]
           ELSE o = 0

\* C1 amended: for channel values in [0, 256), each output channel is the
\* image's channel value with its fraction dropped (the uint8 conversion)
\* where the mask value is >= 0.9, the boundary 0.9 included, and 0 where the
\* mask value is < 0.9.
C1_CropTruncatesPixel ==
    \A j \in CropStored : \A p \in Pix : \A c \in Chan :
        LET v == orig_data.items[j][p][c]
            o == new_test_res[j][p][c]
        IN IF MaskValueFor(j, p)[1] * 10 >= 9 * MaskValueFor(j, p)[2]
           THEN o * v[2] <= v[1] /\ v[1] < (o + 1) * v[2]
           ELSE o = 0

\* a returned batch holding a fractional pixel under mask value 0.9 and a
\* non-black pixel under mask value 0.89
C1_Witness ==
    /\ op = "cropPanels" /\ pc = "returned" /\ ~recrop
    /\ \E j \in 1..ju : \E p \in Pix :
          /\ MaskValueFor(j, p) = <<9, 10>>
          /\ orig_data.items[j][p] = PixelKinds[3]
          /\ new_test_res[j][p] = <<0, 1, 255>>
    /\ \E j \in 1..ju : \E p \in Pix :
          /\ MaskValueFor(j, p) = <<89, 100>>
          /\ orig_data.items[j][p] = PixelKinds[2]
          /\ new_test_res[j][p] = <<0, 0, 0>>

\* C2: after a call of cropPanels the caller's image array and mask array hold
\* the values they held before the call.
C2_NoSideEffects ==
    (op = "cropPanels" /\ pc = "returned")
        => (test_data = orig_data /\ test_res = orig_res)

BinaryMasks(r) ==
    /\ r.kind \in {"grid", "batch", "sameSize"}
    /\ \A k \in 1..Len(r.items) : \A p \in Pix : r.items[k][p] \in {R(0), R(1)}

\* C8: cropping the result of cropPanels(I, M) again with the same binary mask
\* M returns that result unchanged, at every pixel and channel.
C8_CropIdempotent ==
    (op = "cropPanels" /\ pc = "returned" /\ recrop
        /\ BinaryMasks(prev_res) /\ BinaryMasks(orig_res))
        => \A j \in 1..Len(new_test_res) : \A p \in Pix : \A c \in Chan :
              R(new_test_res[j][p][c]) = test_data.items[j][p][c]

\* a second crop under a binary mask whose input holds a kept pixel that the
\* first crop truncated, and a zeroed pixel
C8_Witness ==
    /\ op = "cropPanels" /\ pc = "returned" /\ recrop
    /\ BinaryMasks(prev_res) /\ BinaryMasks(orig_res)
    /\ \E j \in 1..ju : \E p, q \in Pix :
          /\ new_test_res[j][p] = <<0, 1, 255>>
          /\ MaskValueFor(j, q) = R(0)
          /\ new_test_res[j][q] = <<0, 0, 0>>

\* the candidates detectAzimuth has mapped so far
AzMapped == IF op = "detectAzimuth" /\ pc \in {"lines", "returned"} THEN 1..ind ELSE {}

\* how often bin v occurs among the candidates only
CandCount(v) == Cardinality({x \in 1..Len(peaks) : az[x] = v})

\* C3 as stated: when some candidate bin occurs twice or more, the returned
\* azimuth is the bin of the highest frequency counted across the candidates
\* only, the lowest such bin when several share that frequency.
C3_ModeOverCandidates ==
    (op = "detectAzimuth" /\ pc = "returned" /\ Len(peaks) >= 1
        /\ \E x \in 1..Len(peaks) : CandCount(az[x]) >= 2)
        => /\ \E x \in 1..Len(peaks) : azimuth = az[x]
           /\ \A x \in 1..Len(peaks) :
                 \/ CandCount(az[x]) < CandCount(azimuth)
                 \/ (CandCount(az[x]) = CandCount(azimuth) /\ azimuth <= az[x])

\* C4 as stated: when the bins of a non-empty candidate sequence are pairwise
\* distinct, the returned azimuth is the bin of the first, strongest candidate.
C4_FallbackToStrongest ==
    (op = "detectAzimuth" /\ pc = "returned" /\ Len(peaks) >= 1
        /\ \A x \in 1..Len(peaks) : CandCount(az[x]) = 1)
        => azimuth = az[1]

\* C5 as stated: a candidate at angle theta has bin 90 + trunc(theta) when
\* theta >= 0 and 270 + trunc(theta) when theta < 0, also for theta in (-1, 0).
C5_BranchOnTheta ==
    \A x \in AzMapped :
        LET n == 180 * peaks[x] - 90 * 359
        IN az[x] = IF n >= 0 THEN 90 + (n \div 359) ELSE 270 - ((-n) \div 359)

\* C5 amended: the branch is taken on the truncated angle: the bin is
\* 90 + trunc(theta) when theta > -1 (trunc(theta) >= 0) and 270 + trunc(theta)
\* when theta <= -1; every theta in (-1, 0) has bin 90.
C5_BranchOnTruncated ==
    \A x \in AzMapped :
        LET n == 180 * peaks[x] - 90 * 359
        IN az[x] = IF n > -359
                   THEN 90 + (IF n >= 0 THEN n \div 359 ELSE 0)
                   ELSE 270 - ((-n) \div 359)

\* candidates at -0.25 and at -1.25 degrees have been mapped, to 90 and 269
C5_Witness ==
    /\ op = "detectAzimuth" /\ pc = "lines" /\ ind >= 2
    /\ \E x, k \in 1..ind :
          /\ peaks[x] = 179 /\ az[x] = 90
          /\ peaks[k] = 177 /\ az[k] = 269

\* the pixels of clusterPanels' mask, and its source image
Masked == {p \in Pix : test_mask.items[1][p] # R(0)}
Source == orig_data.items[1]

ClusterDone == op = "clusterPanels" /\ pc = "returned"

\* C6 as stated: the result holds number_clusters images; a masked pixel has
\* its source value in the image of its label and is 0 in the others; a pixel
\* outside the mask is 0 in every image.
C6_PartitionKeepsValue ==
    ClusterDone =>
        /\ Len(clusters) = number_clusters.v
        /\ \A n \in 1..Len(clusters) : \A p \in Pix : \A c \in Chan :
              IF p \in Masked /\ label_im[p] = n - 1
              THEN clusters[n][p][c] * Source[p][c][2] = Source[p][c][1]
              ELSE clusters[n][p][c] = 0

\* C6 amended: the same, the kept value being the source value with its
\* fraction dropped (the uint8 conversion), for channel values in [0, 256).
C6_PartitionTruncatesValue ==
    ClusterDone =>
        /\ Len(clusters) = number_clusters.v
        /\ \A p \in Masked : label_im[p] \in 0..(number_clusters.v - 1)
        /\ \A n \in 1..Len(clusters) : \A p \in Pix : \A c \in Chan :
              IF p \in Masked /\ label_im[p] = n - 1
              THEN /\ clusters[n][p][c] * Source[p][c][2] <= Source[p][c][1]
                   /\ Source[p][c][1] < (clusters[n][p][c] + 1) * Source[p][c][2]
              ELSE clusters[n][p][c] = 0

\* two clusters returned: a masked fractional pixel kept, truncated, in the
\* image of its label 1 and zeroed in the other, and a non-black pixel
\* outside the mask
C6_Witness ==
    /\ ClusterDone /\ number_clusters.v = 2
    /\ \E p \in Masked :
          /\ Source[p] = PixelKinds[3] /\ label_im[p] = 1
          /\ clusters[2][p] = <<0, 1, 255>> /\ clusters[1][p] = <<0, 0, 0>>
    /\ \E p \in Pix \ Masked : Source[p] = PixelKinds[2]

\* the pixels that are nonzero in some channel of some returned image
NonzeroUnion ==
    {p \in Pix : \E n \in 1..Len(clusters) : \E c \in Chan : clusters[n][p][c] # 0}

\* C7 as stated: the nonzero pixel locations of the returned images, taken
\* together, are exactly the masked pixels, whatever the source values.
C7_UnionIsMask == ClusterDone => NonzeroUnion = Masked

\* C7 amended: they are exactly the masked pixels whose source value is at
\* least 1 in some channel (nonzero once converted to uint8); a masked pixel
\* that is black in the source is in no image's nonzero set.
C7_UnionIsNonblackMask ==
    ClusterDone =>
        NonzeroUnion = {p \in Masked : \E c \in Chan : Source[p][c][1] >= Source[p][c][2]}

\* a returned call whose mask holds a black pixel and a non-black pixel, the
\* mask value of one of them below 0.9
C7_Witness ==
    /\ ClusterDone
    /\ \E p, q \in Masked :
          /\ Source[p] = PixelKinds[1] /\ p \notin NonzeroUnion
          /\ q \in NonzeroUnion
          /\ (test_mask.items[1][p] = <<89, 100>> \/ test_mask.items[1][q] = <<89, 100>>)

\* C9: an error is raised before any computation: no item processed, no input
\* array modified, no graph built, no transform or clustering run.
C9_FailFast ==
    pc = "raised" =>
        /\ ran = {}
        /\ (op = "cropPanels" => (ju = 0 /\ test_res = orig_res /\ test_data = orig_data))

\* C10: a clusterPanels call whose number_clusters is no int or is <= 0 ends
\* in an error raised by the validation, before the graph is built, and
\* returns nothing.
C10_RejectsBadCount ==
    (op = "clusterPanels" /\ pc \in {"returned", "raised"}
        /\ (number_clusters.ty # "int" \/ number_clusters.v <= 0))
        => /\ pc = "raised"
           /\ ran = {}
           /\ clusters = <<>>

\* the mask argument does not fit the images: its 640*640 elements come in
\* another shape, it has another size, or it is a batch whose length is
\* neither 1 nor the length of the image batch
MaskMismatch ==
    \/ orig_res.kind \in {"sameSize", "wrongSize"}
    \/ (orig_res.kind = "batch" /\ Len(orig_res.items) \notin {1, BatchLen(orig_data)})

\* C11: a cropPanels call whose mask does not fit the images' spatial
\* dimensions (or batch length) ends in a raised error, not in a result.
C11_RejectsMismatch ==
    (op = "cropPanels" /\ pc \in {"returned", "raised"}
        /\ orig_data.kind \in {"single", "batch"} /\ MaskMismatch)
        => pc = "raised"

AzDone == op = "detectAzimuth" /\ pc = "returned"

\* C12: for an ndarray image and an int number_lines >= 1, whatever the peak
\* search returns, the returned azimuth is an integer v with 0 <= v < 360.
C12_AzimuthInRange ==
    (AzDone /\ in_img = "ndarray" /\ number_lines.ty = "int" /\ number_lines.v >= 1)
        => (azimuth \in Int /\ 0 <= azimuth /\ azimuth < 360)

\* a call returned the bin of a single candidate at -90 degrees, and the
\* candidates filled the bin array
C12_Witness ==
    /\ AzDone /\ number_lines.v = 1
    /\ peaks = <<0>> /\ azimuth = 180

\* C13: for number_lines >= 1 and a peak search that returns no candidate,
\* detectAzimuth raises nothing and returns 0: by the all-unique branch when
\* number_lines = 1, by the mode branch over the zero array when it is >= 2.
C13_EmptyReturnsZero ==
    (op = "detectAzimuth" /\ number_lines.v >= 1 /\ peaks = <<>>
        /\ pc \in {"lines", "returned", "raised"} /\ "hough_line" \in ran)
        => /\ pc # "raised"
           /\ err = "none"
           /\ ind = 0
           /\ Len(az) = number_lines.v
           /\ Cardinality({x \in 1..Len(az) : az[x] = 0}) = number_lines.v
           /\ (number_lines.v = 1 => CountsElements(az)[ArgMax(CountsElements(az))] = 1)
           /\ (number_lines.v >= 2 => CountsElements(az)[ArgMax(CountsElements(az))] # 1)
           /\ (pc = "returned" => azimuth = 0)

\* a call with number_lines = 3 and no candidate has returned
C13_Witness ==
    /\ AzDone /\ number_lines.v = 3 /\ peaks = <<>> /\ az = <<0, 0, 0>>
    /\ azimuth = 0

\* C15: the bin array has number_lines slots and the slots after the m
\* candidates stay 0 and are counted as bin 0.  The returned azimuth is 0 or
\* the bin of a candidate, a value in 90..269; it is a candidate's bin when
\* m = number_lines; it is 0 when 1 <= m <= number_lines - 2 and no candidate
\* bin occurs more than number_lines - m times.
C15_PaddingCountsAsZero ==
    AzDone =>
        LET m == Len(peaks)
            n == number_lines.v
            CandBins == {az[x] : x \in 1..m}
        IN /\ Len(az) = n
           /\ \A x \in (m + 1)..n : az[x] = 0
           /\ CandBins \subseteq 90..269
           /\ azimuth \in CandBins \cup {0}
           /\ (m = n => azimuth \in CandBins)
           /\ ((1 <= m /\ m <= n - 2 /\ \A v \in CandBins : CandCount(v) <= n - m)
                  => azimuth = 0)

\* two candidates of one bin in a bin array of four slots: bin 0 ties with
\* the candidates' bin and is returned
C15_Witness ==
    /\ AzDone /\ number_lines.v = 4 /\ Len(peaks) = 2
    /\ az = <<269, 269, 0, 0>> /\ azimuth = 0

\* cropPanels called on one image alone with mask m: lines 378-386 for ju = 0
CropAlone(img, m) == StoreUint8(CropCopy(img, MaskUint8(ThresholdMask(m))))

\* C14: with a batch of images and one mask without a batch dimension, the
\* output for item j is what cropPanels returns for image j alone with the
\* mask as the caller passed it, whatever j and the items processed before.
C14_SharedMaskPerItem ==
    (op = "cropPanels" /\ orig_res.kind = "grid" /\ orig_data.kind = "batch")
        => \A j \in CropStored : new_test_res[j] = CropAlone(orig_data.items[j], orig_res.items[1])

\* a batch of three images cropped with one shared mask that the first
\* iteration changed in the caller's array; the third item kept a pixel
C14_Witness ==
    /\ op = "cropPanels" /\ pc = "returned" /\ ~recrop
    /\ orig_res.kind = "grid" /\ orig_data.kind = "batch" /\ ju = 3
    /\ test_res # orig_res
    /\ \E p \in Pix : new_test_res[3][p] # <<0, 0, 0>>

Next ==
    \/ \E d \in DataArgs, r \in ResArgs : cropPanels(d, r)
    \/ CropItem
    \/ CropReturn
    \/ CropAgain
    \/ \E img \in {"ndarray", "list"}, nl \in NumberArgs : detectAzimuth(img, nl)
    \/ AzEdges
    \/ AzLine
    \/ AzResolve
    \/ \E d \in ClusterDataArgs, m \in ClusterMaskArgs, k \in ClusterNumberArgs,
          f \in {"bool", "str"} : clusterPanels(d, m, k, f)
    \/ ClusterGraph
    \/ ClusterSpectral
    \/ ClusterRender
    \/ ClusterReturn

Spec == Init /\ [][Next]_vars

====
